---- MODULE Spec2Model ----
(***************************************************************************)
(* Model of the telemetry channel worker (channel/state.rs): the sm!       *)
(* state machine `worker`, the Worker::run loop and its four handlers,     *)
(* together with the two crossbeam channels it reads, the timeout it       *)
(* arms and the Transmitter it awaits.                                     *)
(***************************************************************************)
EXTENDS Integers, Sequences, FiniteSets, TLC

\* ------------------------------------------------------------------ bounds
MaxRecords == 2      \* envelopes the producers enqueue in a run
MaxCommands == 2     \* commands the producers enqueue in a run
MaxRun == 5          \* saturation point of the consecutive-Retry counter

\* --------------------------------------------------------------- constants
Commands == {"Flush", "Close", "Terminate"}

None == [kind |-> "none", d |-> 0]

\* timeout::after(self.interval)
IntervalTimer == [kind |-> "interval", d |-> 0]

\* timeout::after(timeout) for a delay handed out by the retry policy
RetryTimer(d) == [kind |-> "retry", d |-> d]

\* ------------------------------------------------------ channel::retry::Retry
\* Retry::exponential(): a bounded, strictly increasing sequence of delays
Retry_exponential == <<2, 4, 16>>

\* Retry::once(): exhausted on the first call of next()
Retry_once == <<>>

\* Retry::default()
Retry_default == <<>>

\* Retry::next(): Some(delay) and the rest of the sequence, or None
Retry_next(r) ==
    IF r = <<>> THEN [some |-> FALSE, d |-> 0, rest |-> r]
                ELSE [some |-> TRUE, d |-> Head(r), rest |-> Tail(r)]

\* --------------------------------------------------------------- sm! worker
\* The transition table of the sm! macro: the target state of event e in
\* state s, "Invalid" for a pair the macro does not declare.
worker(s, e) ==
    CASE e = "TimeoutExpired" /\ s \in {"Receiving", "Waiting"} -> "Sending"
      [] e = "FlushRequested" /\ s = "Receiving" -> "Sending"
      [] e = "CloseRequested" /\ s = "Receiving" -> "Sending"
      [] e = "CloseRequested" /\ s = "Waiting" -> "Stopped"
      [] e = "ItemsSentAndContinue" /\ s = "Sending" -> "Receiving"
      [] e = "ItemsSentAndStop" /\ s = "Sending" -> "Stopped"
      [] e = "RetryRequested" /\ s = "Sending" -> "Waiting"
      [] e = "RetryExhausted" /\ s = "Waiting" -> "Receiving"
      [] e = "TerminateRequested" /\ s \in {"Receiving", "Sending", "Waiting"} -> "Stopped"
      [] OTHER -> "Invalid"

\* m.transition(e).as_enum(): the Variant <target state>By<event>
transition(m, e) == [state |-> worker(m.state, e), by |-> e]

\* Machine::new(Receiving).as_enum()
InitialReceiving == [state |-> "Receiving", by |-> "Initial"]

\* Mutant: the arm of StoppedByCloseRequested goes on receiving
Handler_StoppedByCloseReceives(v) ==
    CASE v.state = "Receiving" \/ (v.state = "Stopped" /\ v.by = "CloseRequested")
            -> "handle_receiving"
      [] v.state = "Sending" /\ v.by \in {"TimeoutExpired", "FlushRequested"}
            -> "handle_sending_with_retry"
      [] v.state = "Sending" /\ v.by = "CloseRequested"
            -> "handle_sending_once_and_terminate"
      [] v.state = "Waiting" -> "handle_waiting"
      [] v.state = "Stopped" /\ v.by \in {"ItemsSentAndStop", "TerminateRequested"}
            -> "break"
      [] OTHER -> "unmatched"

\* The match of Worker::run: the handler each Variant is dispatched to
Handler(v) ==
    CASE v.state = "Receiving" /\ v.by \in {"Initial", "ItemsSentAndContinue", "RetryExhausted"}
            -> "handle_receiving"
      [] v.state = "Sending" /\ v.by \in {"TimeoutExpired", "FlushRequested"}
            -> "handle_sending_with_retry"
      [] v.state = "Sending" /\ v.by = "CloseRequested"
            -> "handle_sending_once_and_terminate"
      [] v.state = "Waiting" /\ v.by = "RetryRequested" -> "handle_waiting"
      [] v.state = "Stopped" /\ v.by \in {"ItemsSentAndStop", "CloseRequested", "TerminateRequested"}
            -> "break"
      [] OTHER -> "unmatched"

\* ------------------------------------------------------------------- state
VARIABLES
    state,             \* run: the current Variant
    pc,                \* position inside the current handler
    items,             \* run: the buffer Vec<Envelope>
    retry,             \* run: the Retry policy instance
    timer,             \* the timeout armed by the current wait
    inflight,          \* the batch the Transmitter is working on, <<>> if none
    event_receiver,    \* records channel
    command_receiver,  \* command channel
    disconnected,      \* every command sender dropped
    nextId,            \* id of the next envelope a producer enqueues
    issued,            \* commands enqueued so far
    from,              \* history: state the last transition left
    lastRecv,          \* history: result of the last completed select
    outcome,           \* history: kind of the response the handler just returned on
    sends,             \* history: invocations in the current Sending phase
    closeSends,        \* history: invocations since a Close was read
    retryRun,          \* history: consecutive Retry responses of this cycle
    response,          \* history: the response the handler just returned on
    retained           \* history: the buffer as the Sending phase in progress found it

vars == <<state, pc, items, retry, timer, inflight, event_receiver,
          command_receiver, disconnected, nextId, issued, from, lastRecv,
          outcome, sends, closeSends, retryRun, response, retained>>

chans == <<event_receiver, command_receiver, disconnected, nextId, issued>>

\* The result `got` of a select! completed in state `in`
Recv(in, got) == [in |-> in, got |-> got]

\* No response of the Transmitter is being handled
NoResponse == [kind |-> "none", after |-> 0, items |-> <<>>]

Sat(n, max) == IF n < max THEN n + 1 ELSE max

\* Worker::run up to the loop
Init ==
    /\ state = InitialReceiving
    /\ pc = "entry"
    /\ items = <<>>
    /\ retry = Retry_default
    /\ timer = None
    /\ inflight = <<>>
    /\ event_receiver = <<>>
    /\ command_receiver = <<>>
    /\ disconnected = FALSE
    /\ nextId = 1
    /\ issued = 0
    /\ from = "none"
    /\ lastRecv = Recv("none", "none")
    /\ outcome = "none"
    /\ sends = 0
    /\ closeSends = 0
    /\ retryRun = 0
    /\ response = NoResponse
    /\ retained = <<>>

\* The handler returns Variant v: the loop of run assigns it to state
Return(v) ==
    /\ state' = v
    /\ from' = state.state
    /\ pc' = "entry"
    /\ timer' = None
    /\ retryRun' = IF v.state = "Receiving" THEN 0 ELSE retryRun


\* ------------------------------------------------------------ handle_receiving
\* Mutant: Terminate is taken for a Flush
ReceivingCommand_TerminateFlushes(c) ==
    CASE c = "Flush" -> "FlushRequested"
      [] c = "Terminate" -> "FlushRequested"
      [] c = "Close" -> "CloseRequested"

\* The event handle_receiving raises for a command read from the channel
ReceivingCommand(c) ==
    CASE c = "Flush" -> "FlushRequested"
      [] c = "Terminate" -> "TerminateRequested"
      [] c = "Close" -> "CloseRequested"

\* The event both waits raise when recv reports the command channel closed
ChannelClosed == "TerminateRequested"

\* Mutant: handle_receiving takes what is queued on the records channel
handle_receiving_enter_TakesRecords ==
    /\ Handler(state) = "handle_receiving"
    /\ pc = "entry"
    /\ outcome' = "none"
    /\ response' = NoResponse
    /\ timer' = IntervalTimer
    /\ items' = event_receiver
    /\ event_receiver' = <<>>
    /\ pc' = "select"
    /\ UNCHANGED <<state, retry, inflight, command_receiver, disconnected, nextId,
                   issued, from, lastRecv, sends, closeSends, retryRun>>
    /\ UNCHANGED <<retained>>

\* handle_receiving up to the select!: arm the timeout, clear the buffer
handle_receiving_enter ==
    /\ Handler(state) = "handle_receiving"
    /\ pc = "entry"
    /\ outcome' = "none"
    /\ response' = NoResponse
    /\ timer' = IntervalTimer
    /\ items' = <<>>
    /\ pc' = "select"
    /\ UNCHANGED <<state, retry, inflight, chans, from, lastRecv,
                   sends, closeSends, retryRun>>
    /\ UNCHANGED <<retained>>

\* select!: recv(command_receiver) -> Ok(command)
handle_receiving_command ==
    /\ state.state = "Receiving"
    /\ pc = "select"
    /\ command_receiver # <<>>
    /\ LET c == Head(command_receiver) IN
        /\ command_receiver' = Tail(command_receiver)
        /\ lastRecv' = Recv("Receiving", c)
        /\ Return(transition(state, ReceivingCommand(c)))
    /\ UNCHANGED <<items, retry, inflight, event_receiver, disconnected, nextId,
                   issued, outcome, sends, closeSends>>
    /\ UNCHANGED <<response, retained>>

\* select!: recv(command_receiver) -> Err: the channel is empty and disconnected
handle_receiving_closed ==
    /\ state.state = "Receiving"
    /\ pc = "select"
    /\ command_receiver = <<>>
    /\ disconnected
    /\ lastRecv' = Recv("Receiving", "Err")
    /\ Return(transition(state, ChannelClosed))
    /\ UNCHANGED <<items, retry, inflight, chans, outcome, sends, closeSends>>
    /\ UNCHANGED <<response, retained>>

\* select!: recv(timeout)
handle_receiving_timeout ==
    /\ state.state = "Receiving"
    /\ pc = "select"
    /\ timer.kind = "interval"
    /\ lastRecv' = Recv("Receiving", "Timeout")
    /\ Return(transition(state, "TimeoutExpired"))
    /\ UNCHANGED <<items, retry, inflight, chans, outcome, sends, closeSends>>
    /\ UNCHANGED <<response, retained>>

\* -------------------------------------------------------------- handle_sending
\* Mutant: the policy is left as the previous phase consumed it
SendingWithRetryPolicy_Keeps(r) == r

\* The policy handle_sending_with_retry stores in retry before the send
SendingWithRetryPolicy(r) == Retry_exponential

\* Mutant: the close path keeps the policy of the previous phase
SendingOncePolicy_Keeps(r) == r

\* The policy handle_sending_once_and_terminate stores in retry before the send
SendingOncePolicy(r) == Retry_once

\* handle_sending_with_retry / handle_sending_once_and_terminate up to the
\* call of handle_sending
handle_sending_enter ==
    /\ state.state = "Sending"
    /\ pc = "entry"
    /\ outcome' = "none"
    /\ response' = NoResponse
    /\ retry' = IF Handler(state) = "handle_sending_with_retry"
                   THEN SendingWithRetryPolicy(retry)
                   ELSE SendingOncePolicy(retry)
    /\ sends' = 0
    /\ retained' = items
    /\ pc' = "drain"
    /\ UNCHANGED <<state, items, timer, inflight, chans, from, lastRecv,
                   closeSends, retryRun>>

\* Mutant: the drained envelope is put in front of the buffer
Extend_Prepends(its, e) == <<e>> \o its

\* items.extend(...) with one envelope the try_iter yields
Extend(its, e) == Append(its, e)

\* One step of items.extend(self.event_receiver.try_iter())
handle_sending_drain ==
    /\ state.state = "Sending"
    /\ pc = "drain"
    /\ event_receiver # <<>>
    /\ items' = Extend(items, Head(event_receiver))
    /\ event_receiver' = Tail(event_receiver)
    /\ UNCHANGED <<state, pc, retry, timer, inflight, command_receiver, disconnected,
                   nextId, issued, from, lastRecv, outcome, sends,
                   closeSends, retryRun>>
    /\ UNCHANGED <<response, retained>>

\* Mutant: the close path backs off when handle_sending asks for a retry
SendingReturn_RetriesOnFailure(m, r) ==
    IF Handler(m) = "handle_sending_once_and_terminate" /\ r.state # "Waiting"
    THEN transition(m, "TerminateRequested")
    ELSE r

\* Mutant: the close path returns what handle_sending returned
SendingReturn_KeepsResult(m, r) == r

\* The Variant the Sending handler of Variant m returns when handle_sending
\* returned r: handle_sending_once_and_terminate discards r
SendingReturn(m, r) ==
    IF Handler(m) = "handle_sending_once_and_terminate"
    THEN transition(m, "TerminateRequested")
    ELSE r

\* Mutant: an empty buffer is treated as a failed send
SendingEmpty_Retries(m) == transition(m, "RetryRequested")

\* handle_sending with nothing to send
SendingEmpty(m) == transition(m, "ItemsSentAndContinue")

\* try_iter found the channel empty and items is empty
handle_sending_empty ==
    /\ state.state = "Sending"
    /\ pc = "drain"
    /\ event_receiver = <<>>
    /\ items = <<>>
    /\ Return(SendingReturn(state, SendingEmpty(state)))
    /\ UNCHANGED <<items, retry, inflight, chans, lastRecv, outcome, sends, closeSends>>
    /\ retained' = <<>>
    /\ UNCHANGED <<response>>

\* try_iter found the channel empty and items is not: transmitter.send(items)
handle_sending_send ==
    /\ state.state = "Sending"
    /\ pc = "drain"
    /\ event_receiver = <<>>
    /\ items # <<>>
    /\ inflight' = items
    /\ pc' = "await"
    /\ sends' = Sat(sends, 2)
    /\ closeSends' = IF lastRecv.got = "Close" THEN Sat(closeSends, 2) ELSE closeSends
    /\ UNCHANGED <<state, items, retry, timer, chans, from, lastRecv, outcome, retryRun>>
    /\ UNCHANGED <<response, retained>>

\* The responses the Transmitter may give to a batch
Suffixes(batch) == {SubSeq(batch, k, Len(batch)) : k \in 1..(Len(batch) + 1)}

RetryAfter == {0, 8}

Responses(batch) ==
    {[kind |-> k, after |-> 0, items |-> <<>>] : k \in {"Success", "NoRetry", "Err"}}
    \cup {[kind |-> "Retry", after |-> 0, items |-> its] : its \in Suffixes(batch)}
    \cup {[kind |-> "Throttled", after |-> a, items |-> its] :
             a \in RetryAfter, its \in Suffixes(batch)}

\* Mutant: a Retry response keeps the whole batch instead of its remaining items
SendingResult_RetryKeepsBatch(m, its, resp) ==
    CASE resp.kind \in {"Success", "NoRetry"} ->
            [items |-> <<>>, next |-> transition(m, "ItemsSentAndContinue")]
      [] resp.kind = "Throttled" ->
            [items |-> resp.items, next |-> transition(m, "RetryRequested")]
      [] resp.kind \in {"Retry", "Err"} ->
            [items |-> its, next |-> transition(m, "RetryRequested")]

\* Mutant: a retryable response is retried inside the same Sending phase
SendingResult_RetriesInPlace(m, its, resp) ==
    CASE resp.kind \in {"Success", "NoRetry"} ->
            [items |-> <<>>, next |-> transition(m, "ItemsSentAndContinue")]
      [] resp.kind \in {"Retry", "Throttled"} ->
            [items |-> resp.items, next |-> m]
      [] resp.kind = "Err" ->
            [items |-> its, next |-> m]

\* Mutant: a transport failure empties the buffer and ends the cycle
SendingResult_DropsOnErr(m, its, resp) ==
    CASE resp.kind \in {"Success", "NoRetry", "Err"} ->
            [items |-> <<>>, next |-> transition(m, "ItemsSentAndContinue")]
      [] resp.kind \in {"Retry", "Throttled"} ->
            [items |-> resp.items, next |-> transition(m, "RetryRequested")]

\* The match on the result of transmitter.send: the buffer and the Variant
SendingResult(m, its, resp) ==
    CASE resp.kind = "Success" ->
            [items |-> <<>>, next |-> transition(m, "ItemsSentAndContinue")]
      [] resp.kind = "Retry" ->
            [items |-> resp.items, next |-> transition(m, "RetryRequested")]
      [] resp.kind = "Throttled" ->
            [items |-> resp.items, next |-> transition(m, "RetryRequested")]
      [] resp.kind = "NoRetry" ->
            [items |-> <<>>, next |-> transition(m, "ItemsSentAndContinue")]
      [] resp.kind = "Err" ->
            [items |-> its, next |-> transition(m, "RetryRequested")]

\* Mutant: a Terminate queued during the send cancels it
handle_sending_response_Preempted ==
    /\ state.state = "Sending"
    /\ pc = "await"
    /\ IF command_receiver # <<>> /\ Head(command_receiver) = "Terminate"
       THEN /\ command_receiver' = Tail(command_receiver)
            /\ lastRecv' = Recv("Sending", "Terminate")
            /\ Return(transition(state, "TerminateRequested"))
            /\ outcome' = "none"
            /\ response' = NoResponse
            /\ UNCHANGED <<items, event_receiver, disconnected, nextId, issued>>
       ELSE /\ \E resp \in Responses(inflight) :
                LET r == SendingResult(state, items, resp)
                    v == SendingReturn(state, r.next) IN
                /\ items' = r.items
                /\ outcome' = resp.kind
                /\ response' = resp
                /\ state' = v
                /\ from' = state.state
                /\ pc' = "entry"
                /\ timer' = None
                /\ retryRun' = IF v.state = "Receiving" THEN 0
                               ELSE IF resp.kind = "Retry" /\ resp.items # <<>>
                                    THEN Sat(retryRun, MaxRun)
                                    ELSE 0
            /\ UNCHANGED <<chans, lastRecv>>
    /\ inflight' = <<>>
    /\ UNCHANGED <<retry, sends, closeSends>>
    /\ retained' = <<>>

\* transmitter.send(items).await completes with a response
handle_sending_response ==
    /\ state.state = "Sending"
    /\ pc = "await"
    /\ \E resp \in Responses(inflight) :
        LET r == SendingResult(state, items, resp)
            v == SendingReturn(state, r.next) IN
        /\ items' = r.items
        /\ outcome' = resp.kind
        /\ response' = resp
        /\ state' = v
        /\ from' = state.state
        /\ pc' = "entry"
        /\ timer' = None
        /\ retryRun' = IF v.state = "Receiving" THEN 0
                       ELSE IF resp.kind = "Retry" /\ resp.items # <<>>
                            THEN Sat(retryRun, MaxRun)
                            ELSE 0
    /\ inflight' = <<>>
    /\ UNCHANGED <<retry, chans, lastRecv, sends, closeSends>>
    /\ retained' = <<>>

\* -------------------------------------------------------------- handle_waiting
\* Mutant: Terminate is skipped like a Flush
WaitingCommand_TerminateIgnored(c) ==
    CASE c = "Flush" -> "continue"
      [] c = "Terminate" -> "continue"
      [] c = "Close" -> "CloseRequested"

\* Mutant: a Close during the backoff starts the retry at once
WaitingCommand_CloseRetries(c) ==
    CASE c = "Flush" -> "continue"
      [] c = "Terminate" -> "TerminateRequested"
      [] c = "Close" -> "TimeoutExpired"

\* Mutant: a Flush during the backoff starts the retry at once
WaitingCommand_FlushRetries(c) ==
    CASE c = "Flush" -> "TimeoutExpired"
      [] c = "Terminate" -> "TerminateRequested"
      [] c = "Close" -> "CloseRequested"

\* What handle_waiting does with a command read from the channel
WaitingCommand(c) ==
    CASE c = "Flush" -> "continue"
      [] c = "Terminate" -> "TerminateRequested"
      [] c = "Close" -> "CloseRequested"

\* handle_waiting up to the select!: retry.next() gives the delay to wait for,
\* or the policy is exhausted
handle_waiting_enter ==
    /\ Handler(state) = "handle_waiting"
    /\ pc = "entry"
    /\ outcome' = "none"
    /\ response' = NoResponse
    /\ LET n == Retry_next(retry) IN
        /\ retry' = n.rest
        /\ IF n.some
           THEN /\ timer' = RetryTimer(n.d)
                /\ pc' = "select"
                /\ UNCHANGED <<state, from, retryRun>>
           ELSE Return(transition(state, "RetryExhausted"))
    /\ UNCHANGED <<items, inflight, chans, lastRecv, sends, closeSends>>
    /\ UNCHANGED <<retained>>

\* select!: recv(command_receiver) -> Ok(command)
handle_waiting_command ==
    /\ state.state = "Waiting"
    /\ pc = "select"
    /\ command_receiver # <<>>
    /\ LET c == Head(command_receiver) IN
        /\ command_receiver' = Tail(command_receiver)
        /\ lastRecv' = Recv("Waiting", c)
        /\ IF WaitingCommand(c) = "continue"
           THEN UNCHANGED <<state, from, pc, timer, retryRun>>
           ELSE Return(transition(state, WaitingCommand(c)))
    /\ UNCHANGED <<items, retry, inflight, event_receiver, disconnected, nextId,
                   issued, outcome, sends, closeSends>>
    /\ UNCHANGED <<response, retained>>

\* select!: recv(command_receiver) -> Err
handle_waiting_closed ==
    /\ state.state = "Waiting"
    /\ pc = "select"
    /\ command_receiver = <<>>
    /\ disconnected
    /\ lastRecv' = Recv("Waiting", "Err")
    /\ Return(transition(state, ChannelClosed))
    /\ UNCHANGED <<items, retry, inflight, chans, outcome, sends, closeSends>>
    /\ UNCHANGED <<response, retained>>

\* select!: recv(timeout)
handle_waiting_timeout ==
    /\ state.state = "Waiting"
    /\ pc = "select"
    /\ timer.kind = "retry"
    /\ lastRecv' = Recv("Waiting", "Timeout")
    /\ Return(transition(state, "TimeoutExpired"))
    /\ UNCHANGED <<items, retry, inflight, chans, outcome, sends, closeSends>>
    /\ UNCHANGED <<response, retained>>

\* ------------------------------------------------------------------ run: break
run_break ==
    /\ Handler(state) = "break"
    /\ pc = "entry"
    /\ outcome' = "none"
    /\ response' = NoResponse
    /\ pc' = "done"
    /\ UNCHANGED <<state, items, retry, timer, inflight, chans, from, lastRecv, sends, closeSends, retryRun>>
    /\ UNCHANGED <<retained>>

\* ------------------------------------------------------------------- producers
\* A producer sends an envelope on the records channel
send_envelope ==
    /\ nextId <= MaxRecords
    /\ event_receiver' = Append(event_receiver, nextId)
    /\ nextId' = nextId + 1
    /\ UNCHANGED <<state, pc, items, retry, timer, inflight, command_receiver,
                   disconnected, issued, from, lastRecv, outcome,
                   sends, closeSends, retryRun>>
    /\ UNCHANGED <<response, retained>>

\* A producer sends a command on the command channel
send_command ==
    /\ ~disconnected
    /\ issued < MaxCommands
    /\ \E c \in Commands : command_receiver' = Append(command_receiver, c)
    /\ issued' = issued + 1
    /\ UNCHANGED <<state, pc, items, retry, timer, inflight, event_receiver,
                   disconnected, nextId, from, lastRecv, outcome, sends,
                   closeSends, retryRun>>
    /\ UNCHANGED <<response, retained>>

\* The last command sender is dropped
drop_command_sender ==
    /\ ~disconnected
    /\ disconnected' = TRUE
    /\ UNCHANGED <<state, pc, items, retry, timer, inflight, event_receiver,
                   command_receiver, nextId, issued, from, lastRecv,
                   outcome, sends, closeSends, retryRun>>
    /\ UNCHANGED <<response, retained>>

\* ------------------------------------------------------------- specifications
\* The steps of the worker task
Worker ==
    \/ handle_receiving_enter
    \/ handle_receiving_command
    \/ handle_receiving_closed
    \/ handle_receiving_timeout
    \/ handle_sending_enter
    \/ handle_sending_drain
    \/ handle_sending_empty
    \/ handle_sending_send
    \/ handle_sending_response
    \/ handle_waiting_enter
    \/ handle_waiting_command
    \/ handle_waiting_closed
    \/ handle_waiting_timeout
    \/ run_break

Next ==
    \/ handle_receiving_enter
    \/ handle_receiving_command
    \/ handle_receiving_closed
    \/ handle_receiving_timeout
    \/ handle_sending_enter
    \/ handle_sending_drain
    \/ handle_sending_empty
    \/ handle_sending_send
    \/ handle_sending_response
    \/ handle_waiting_enter
    \/ handle_waiting_command
    \/ handle_waiting_closed
    \/ handle_waiting_timeout
    \/ run_break
    \/ send_envelope
    \/ send_command
    \/ drop_command_sender

Spec == Init /\ [][Next]_vars

\* The worker task keeps running (timeouts fire, the Transmitter's future
\* completes), and a select! that finds the command channel ready again and
\* again eventually takes that branch: crossbeam's select! picks at random
\* among the ready operations.
Fairness ==
    /\ WF_vars(Worker)
    /\ SF_vars(handle_receiving_command)
    /\ SF_vars(handle_receiving_closed)
    /\ SF_vars(handle_waiting_command)
    /\ SF_vars(handle_waiting_closed)

LiveSpec == Init /\ [][Next]_vars /\ Fairness


\* ---------------------------------------------------------------- vocabulary
StoppedByTerminateRequested == [state |-> "Stopped", by |-> "TerminateRequested"]

StoppedByCloseRequested == [state |-> "Stopped", by |-> "CloseRequested"]

SendingByCloseRequested == [state |-> "Sending", by |-> "CloseRequested"]

SendingByFlushRequested == [state |-> "Sending", by |-> "FlushRequested"]

SendingByTimeoutExpired == [state |-> "Sending", by |-> "TimeoutExpired"]

ReceivingByItemsSentAndContinue == [state |-> "Receiving", by |-> "ItemsSentAndContinue"]

\* No command has been sent and the command channel is connected
NoCommand == issued = 0 /\ ~disconnected

\* A Terminate is queued on the command channel
TerminateQueued ==
    \E i \in DOMAIN command_receiver : command_receiver[i] = "Terminate"

\* The step reads command c from the command channel
Reads(c) ==
    /\ pc = "select"
    /\ command_receiver # <<>>
    /\ Head(command_receiver) = c
    /\ command_receiver' = Tail(command_receiver)

\* The step finds the command channel closed
ReadsClosed ==
    /\ pc = "select"
    /\ lastRecv.got # "Err"
    /\ lastRecv'.got = "Err"

\* The step hands a batch to the Transmitter
Invokes == pc = "drain" /\ pc' = "await"

\* ---------------------------------------------------------------------- C1
\* C1: while every Transmitter response is Retry with remaining items and no
\* command arrives, a batch is sent once and retried at most
\* Len(Retry_exponential) times, after which the exhaustion transition drops
\* it: the run of consecutive Retry responses never exceeds the bound + 1.
C1_RetriedBoundTimesThenDropped ==
    NoCommand => retryRun <= Len(Retry_exponential) + 1

\* ---------------------------------------------------------------------- C2
\* C2: once a Terminate is queued on the command channel, or the channel is
\* disconnected, the worker eventually reaches Stopped.
C2_TerminateLeadsToStopped ==
    (TerminateQueued \/ disconnected) ~> (state.state = "Stopped")

\* A Terminate was read during a backoff, with a batch retained
C2_Witness ==
    /\ state = StoppedByTerminateRequested
    /\ lastRecv = Recv("Waiting", "Terminate")
    /\ items # <<>>

\* ---------------------------------------------------------------------- C3
\* C3: the step that reads Terminate, or finds the command channel closed,
\* takes the worker to Stopped by TerminateRequested without invoking the
\* Transmitter, and from then on no batch is handed to the Transmitter.
C3_TerminateStopsWithoutSend ==
    /\ [][(Reads("Terminate") \/ ReadsClosed) =>
             (state' = StoppedByTerminateRequested /\ inflight' = <<>>)]_vars
    /\ [][lastRecv.got \in {"Terminate", "Err"} =>
             (~Invokes /\ inflight' = <<>> /\ state' = state)]_vars

\* A Terminate read in Buffering and a closed channel found in BackingOff
C3_Witness ==
    /\ state = StoppedByTerminateRequested
    /\ lastRecv \in {Recv("Receiving", "Terminate"), Recv("Waiting", "Err")}
    /\ lastRecv.in = "Waiting" => items # <<>>


\* ---------------------------------------------------------------------- C4
\* C4 as stated: once a Close read in Buffering has stopped the worker,
\* exactly one batch has been handed to the Transmitter since the Close.
C4_CloseExactlyOneSend ==
    (lastRecv = Recv("Receiving", "Close") /\ state.state = "Stopped")
        => closeSends = 1

\* C4 as amended: a Close read in Buffering is followed by the close-path
\* Sending phase and then Stopped, whatever the response, with at most one
\* invocation of the Transmitter, and none only when the drain left the buffer
\* empty; a Close read in BackingOff stops with no invocation at all.
C4_CloseAtMostOneSendThenStopped ==
    /\ [](lastRecv = Recv("Receiving", "Close") =>
            /\ state \in {SendingByCloseRequested, StoppedByTerminateRequested}
            /\ closeSends <= 1
            /\ pc = "await" => closeSends = 1)
    /\ [](lastRecv = Recv("Waiting", "Close") =>
            (state = StoppedByCloseRequested /\ closeSends = 0))
    /\ [][(state = SendingByCloseRequested /\ state' # state) =>
            /\ state' = StoppedByTerminateRequested
            /\ closeSends' = closeSends
            /\ closeSends = 0 => (items = <<>> /\ event_receiver = <<>>)
            /\ closeSends = 1 => pc = "await"]_vars

\* The final send of a Close read in Buffering came back retryable or failed,
\* and the worker stopped all the same
C4_Witness ==
    /\ state = StoppedByTerminateRequested
    /\ lastRecv = Recv("Receiving", "Close")
    /\ closeSends = 1
    /\ items # <<>>

\* ---------------------------------------------------------------------- C5
\* C5: the step that reads Close in BackingOff takes the worker to Stopped by
\* CloseRequested and leaves the buffer as it was; no batch is handed to the
\* Transmitter in that step or ever after.
C5_CloseInWaitingStopsWithoutSend ==
    /\ [][(state.state = "Waiting" /\ Reads("Close")) =>
            /\ state' = StoppedByCloseRequested
            /\ items' = items
            /\ inflight' = <<>>]_vars
    /\ [](state = StoppedByCloseRequested =>
            (closeSends = 0 /\ inflight = <<>> /\ lastRecv = Recv("Waiting", "Close")))
    /\ [][state = StoppedByCloseRequested =>
            (~Invokes /\ state' = state /\ items' = items)]_vars

\* Stopped by a Close read in BackingOff, the batch still in the buffer
C5_Witness ==
    /\ state = StoppedByCloseRequested
    /\ pc = "done"
    /\ items # <<>>

\* ---------------------------------------------------------------------- C6
\* C6: the step that reads Flush in BackingOff changes nothing but the command
\* channel: state, position in the wait, buffer, retry policy, armed timer and
\* Transmitter are as before.
C6_FlushInWaitingIsNoOp ==
    [][(state.state = "Waiting" /\ Reads("Flush")) =>
          UNCHANGED <<state, pc, items, retry, timer, inflight, from, sends>>]_vars

\* A Flush was read in BackingOff and the worker waits on the same timer
C6_Witness ==
    /\ state.state = "Waiting"
    /\ pc = "select"
    /\ lastRecv = Recv("Waiting", "Flush")
    /\ timer = RetryTimer(Head(Retry_exponential))
    /\ items # <<>>

\* ---------------------------------------------------------------------- C7
\* The envelopes with ids lo .. hi - 1, in the order they were enqueued
Arrived(lo, hi) == [i \in 1..(hi - lo) |-> lo + i - 1]

\* C7 as stated: the Sending phase a Flush read in Buffering starts has
\* invoked the Transmitter exactly once when it ends.
C7_FlushInvokesExactlyOnce ==
    (lastRecv = Recv("Receiving", "Flush") /\ state.state # "Sending")
        => sends = 1

\* C7 as amended: in the Sending phase a Flush read in Buffering starts, the
\* batch handed to the Transmitter is the buffer, which holds exactly the
\* envelopes dequeued until the drain found the records channel empty, in
\* arrival order; every envelope enqueued later is still queued behind them;
\* the Transmitter is invoked once if the drain yielded an envelope and not at
\* all otherwise.
C7_FlushSendsDrainedRecordsOnce ==
    /\ (state = SendingByFlushRequested /\ pc = "await") =>
            /\ inflight = items
            /\ inflight # <<>>
            /\ sends = 1
            /\ inflight \o event_receiver = Arrived(Head(inflight), nextId)
    /\ (state = SendingByFlushRequested /\ pc = "drain") =>
            /\ sends = 0
            /\ items \o event_receiver = Arrived(nextId - Len(items) - Len(event_receiver), nextId)
    /\ (lastRecv = Recv("Receiving", "Flush") /\ state.state # "Sending") =>
            /\ sends <= 1
            /\ sends = 0 => items = <<>>

\* A flush-triggered batch is with the Transmitter while an envelope enqueued
\* after the drain waits on the records channel
C7_Witness ==
    /\ state = SendingByFlushRequested
    /\ pc = "await"
    /\ inflight = <<1>>
    /\ event_receiver = <<2>>

SpecState(st) ==
    CASE st = "Receiving" -> "Buffering"
      [] st = "Waiting" -> "BackingOff"
      [] OTHER -> st

SpecEvent(e) ==
    CASE e = "TimeoutExpired" -> "TimerExpired"
      [] e = "ItemsSentAndContinue" -> "BatchSentContinue"
      [] e = "ItemsSentAndStop" -> "BatchSentStop"
      [] OTHER -> e

\* The eleven rows of the specification's transition table
TransitionTable ==
    { <<"Buffering", "TimerExpired", "Sending">>,
      <<"Buffering", "FlushRequested", "Sending">>,
      <<"Buffering", "CloseRequested", "Sending">>,
      <<"Buffering", "TerminateRequested", "Stopped">>,
      <<"BackingOff", "TimerExpired", "Sending">>,
      <<"BackingOff", "CloseRequested", "Stopped">>,
      <<"BackingOff", "TerminateRequested", "Stopped">>,
      <<"Sending", "BatchSentContinue", "Buffering">>,
      <<"Sending", "BatchSentStop", "Stopped">>,
      <<"Sending", "RetryRequested", "BackingOff">>,
      <<"Sending", "TerminateRequested", "Stopped">> }

\* C9: the worker starts in Buffering, and every step that changes its state
\* is a row of the transition table: from the state it leaves, by the event
\* the new Variant is tagged with, to the state it enters.
C9_TransitionsAreTableRows ==
    /\ state.state = "Receiving"
    /\ [][state' # state =>
            <<SpecState(state.state), SpecEvent(state'.by), SpecState(state'.state)>>
                \in TransitionTable]_vars

\* The worker is backing off for the second time in a cycle: it has gone
\* through Buffering, Sending, BackingOff and Sending again
C9_Witness ==
    /\ state.state = "Waiting"
    /\ pc = "select"
    /\ retryRun = 2

\* --------------------------------------------------------------------- C10
\* The envelopes of a buffer
Envelopes(its) == {its[i] : i \in DOMAIN its}

\* The step discards undelivered envelopes of a non-empty buffer: it removes
\* some without a response of the Transmitter that accounts for them, or it
\* stops the worker with envelopes left in the buffer
Discards ==
    /\ items # <<>>
    /\ \/ /\ ~(Envelopes(items) \subseteq Envelopes(items'))
          /\ outcome' \notin {"Success", "Retry", "Throttled"}
       \/ /\ state.state # "Stopped"
          /\ state'.state = "Stopped"
          /\ items' # <<>>

\* (a) the Transmitter answered NoRetry
OnRejected == pc = "await" /\ outcome' = "NoRetry"

\* (b) the retry policy was exhausted in BackingOff: the buffer is cleared on
\* entry to Buffering by RetryExhausted
OnRetryExhausted == state.by = "RetryExhausted" \/ state'.by = "RetryExhausted"

\* (c) Terminate was read, or the command channel was found closed
OnTerminate == Reads("Terminate") \/ ReadsClosed

\* (d) Close was read in BackingOff
OnCloseInWaiting == state.state = "Waiting" /\ Reads("Close")

\* (e) the final send of the close path came back retryable or failed
OnCloseSendFailed ==
    /\ state = SendingByCloseRequested
    /\ pc = "await"
    /\ outcome' \in {"Retry", "Throttled", "Err"}

\* C10 as stated: a step discards undelivered envelopes only at (a), (b), (c).
C10_DiscardOnlyAtThreePoints ==
    [][Discards => (OnRejected \/ OnRetryExhausted \/ OnTerminate)]_vars

\* C10 as amended: a step discards undelivered envelopes only at (a), (b),
\* (c), (d) or (e).
C10_DiscardOnlyAtFivePoints ==
    [][Discards =>
          \/ OnRejected
          \/ OnRetryExhausted
          \/ OnTerminate
          \/ OnCloseInWaiting
          \/ OnCloseSendFailed]_vars

\* Stopped on the close path with the batch of the failed final send still
\* in the buffer
C10_Witness ==
    /\ state = StoppedByTerminateRequested
    /\ lastRecv = Recv("Receiving", "Close")
    /\ outcome = "Err"
    /\ items # <<>>


\* --------------------------------------------------------------------- C11
\* C11 as stated: a Sending phase that has ended has invoked the Transmitter
\* exactly once.
C11_EverySendingInvokesOnce ==
    (from = "Sending" /\ pc = "entry") => sends = 1

\* C11 as amended: a Sending phase invokes the Transmitter at most once, and
\* not at all exactly when the drain leaves the buffer empty; the step that
\* receives the response ends the phase, so a retry is a new entry into
\* Sending, reached through BackingOff.
C11_SendingInvokesAtMostOnce ==
    /\ [](sends <= 1)
    /\ []((state.state = "Sending" /\ pc = "await") => sends = 1)
    /\ []((state.state = "Sending" /\ pc \in {"entry", "drain"}) => inflight = <<>>)
    /\ [][(state.state = "Sending" /\ pc = "drain" /\ state' # state) =>
            (sends' = 0 /\ items = <<>> /\ event_receiver = <<>>)]_vars
    /\ [][(state.state = "Sending" /\ pc = "await" /\ pc' # pc) =>
            (state'.state # "Sending" /\ sends' = 1 /\ inflight' = <<>>)]_vars
    /\ [][(state.state # "Sending" /\ state'.state = "Sending") =>
            (state.state \in {"Receiving", "Waiting"} /\ pc' = "entry")]_vars

\* The second retry of a batch: the worker has come back to Sending through
\* BackingOff and the one invocation of this phase is in flight
C11_Witness ==
    /\ state = SendingByTimeoutExpired
    /\ from = "Waiting"
    /\ pc = "await"
    /\ sends = 1
    /\ retryRun = 2


\* --------------------------------------------------------------------- C12
\* The step enters a normal Sending phase from Buffering with nothing in the
\* buffer and nothing on the records channel
EntersEmptyCycle ==
    /\ Handler(state) = "handle_sending_with_retry"
    /\ from = "Receiving"
    /\ pc = "entry"
    /\ pc' = "drain"
    /\ items = <<>>
    /\ event_receiver = <<>>

\* The step ends a normal Sending phase entered from Buffering whose drain
\* found nothing
EndsEmptyCycle ==
    /\ Handler(state) = "handle_sending_with_retry"
    /\ from = "Receiving"
    /\ pc = "drain"
    /\ items = <<>>
    /\ event_receiver = <<>>
    /\ pc' # pc

\* C12 as stated: a Buffering -> Sending -> Buffering cycle over an empty
\* records channel leaves RetryState with the value it had before the cycle.
C12_EmptyCycleKeepsRetry ==
    [][EntersEmptyCycle => retry' = retry]_vars

\* C12 as amended: such a cycle never invokes the Transmitter and keeps the
\* buffer empty; it assigns a fresh exponential sequence to RetryState, whose
\* value in Buffering is therefore the exponential sequence in every cycle but
\* the first, where it is the initial Retry::default().
C12_EmptyCycleResetsRetry ==
    /\ [](state.state = "Receiving" =>
            /\ items = <<>>
            /\ retry = IF state = InitialReceiving THEN Retry_default
                                                   ELSE Retry_exponential)
    /\ [][EntersEmptyCycle => (retry' = Retry_exponential /\ items' = <<>>)]_vars
    /\ [][EndsEmptyCycle =>
            /\ state' = ReceivingByItemsSentAndContinue
            /\ sends' = 0
            /\ inflight' = <<>>
            /\ items' = <<>>
            /\ retry' = retry
            /\ retry = Retry_exponential]_vars

\* Two Flush commands were read and no envelope was ever enqueued: the worker
\* is back in Buffering after two consecutive empty cycles
C12_Witness ==
    /\ state = ReceivingByItemsSentAndContinue
    /\ pc = "select"
    /\ lastRecv = Recv("Receiving", "Flush")
    /\ issued = 2
    /\ command_receiver = <<>>
    /\ nextId = 1
    /\ sends = 0
    /\ retry = Retry_exponential


\* --------------------------------------------------------------------- C13
\* C13: once the worker is Stopped the loop of run breaks: from then on the
\* state never changes, no command is taken from the command channel, no
\* envelope from the records channel, nothing is handed to the Transmitter and
\* the buffer, the retry policy and the timeout stay as they are.
C13_StoppedIsTerminal ==
    /\ [](state.state = "Stopped" => (pc \in {"entry", "done"} /\ inflight = <<>>))
    /\ [](pc = "done" => state.state = "Stopped")
    /\ [][state.state = "Stopped" =>
            /\ state' = state
            /\ pc' \in {pc, "done"}
            /\ ~Invokes
            /\ UNCHANGED <<items, retry, timer, inflight, lastRecv, sends, closeSends>>
            /\ Len(command_receiver') >= Len(command_receiver)
            /\ Len(event_receiver') >= Len(event_receiver)]_vars

\* The loop has ended on a Close read in BackingOff; a command and an envelope
\* sent afterwards stay on their channels
C13_Witness ==
    /\ state = StoppedByCloseRequested
    /\ pc = "done"
    /\ command_receiver # <<>>
    /\ event_receiver # <<>>
    /\ items # <<>>


\* --------------------------------------------------------------------- C14
\* C14: a Sending phase entered by CloseRequested hands at most one batch to
\* the Transmitter, leaves the single-shot policy it installed untouched, and
\* ends in Stopped by TerminateRequested whatever the response was and also
\* when there was nothing to send; the worker is never in BackingOff or
\* Buffering after the Close.
C14_ClosePathStopsUnconditionally ==
    /\ [](state = SendingByCloseRequested =>
            /\ from = "Receiving"
            /\ sends <= 1
            /\ pc # "entry" => retry = Retry_once)
    /\ [](lastRecv = Recv("Receiving", "Close") =>
            state.state \notin {"Receiving", "Waiting"})
    /\ [][(state = SendingByCloseRequested /\ state' # state) =>
            /\ state' = StoppedByTerminateRequested
            /\ retry = Retry_once
            /\ retry' = retry
            /\ sends' = sends
            /\ response'.kind \in {"none", "Success", "Retry", "Throttled", "NoRetry", "Err"}
            /\ response'.kind = "none" <=> sends = 0]_vars
    /\ [][(state = StoppedByTerminateRequested /\ from = "Sending") =>
            (~Invokes /\ retry' = retry /\ state' = state)]_vars

\* The final send of the close path was throttled and the worker stopped
C14_Witness ==
    /\ state = StoppedByTerminateRequested
    /\ from = "Sending"
    /\ response.kind = "Throttled"
    /\ retry = Retry_once
    /\ sends = 1


\* --------------------------------------------------------------------- C15
WaitingByRetryRequested == [state |-> "Waiting", by |-> "RetryRequested"]

\* The step receives the Transmitter's response in a normal Sending phase
RespondsOnNormalPath ==
    /\ Handler(state) = "handle_sending_with_retry"
    /\ pc = "await"
    /\ pc' # pc

\* C15: in a normal Sending phase the response decides buffer and next state:
\* Success and NoRetry empty the buffer and return to Buffering; Retry and
\* Throttled make the buffer exactly the remaining items of the response and
\* go to BackingOff, the same for every retry-after hint; a transport failure
\* leaves the buffer equal to the batch just sent and goes to BackingOff. The
\* step leaves the retry policy alone and arms no timer.
C15_ResponseDecidesBufferAndState ==
    /\ []((Handler(state) = "handle_sending_with_retry" /\ pc = "await") =>
            (items = inflight /\ items # <<>>))
    /\ [][RespondsOnNormalPath =>
            /\ response'.kind \in {"Success", "NoRetry", "Retry", "Throttled", "Err"}
            /\ response'.kind \in {"Success", "NoRetry"} =>
                    (items' = <<>> /\ state' = ReceivingByItemsSentAndContinue)
            /\ response'.kind \in {"Retry", "Throttled"} =>
                    (items' = response'.items /\ state' = WaitingByRetryRequested)
            /\ response'.kind = "Err" =>
                    (items' = inflight /\ state' = WaitingByRetryRequested)
            /\ retry' = retry /\ timer' = None]_vars

\* A batch of two came back Throttled with a hint and one remaining item: the
\* worker enters BackingOff with exactly that item
C15_Witness ==
    /\ state = WaitingByRetryRequested
    /\ pc = "entry"
    /\ response = [kind |-> "Throttled", after |-> 8, items |-> <<2>>]
    /\ items = <<2>>


\* --------------------------------------------------------------------- C16
\* The step takes an envelope off the records channel
TakesRecord == event_receiver' # event_receiver /\ Len(event_receiver') <= Len(event_receiver)

\* C16: handle_receiving and handle_waiting never take from the records
\* channel: the buffer is emptied on every entry to Receiving and is empty
\* throughout its wait, while in Receiving and in Waiting the records channel
\* only grows at its end, and an envelope leaves it only as its head, in the
\* drain of a Sending phase, which appends it to the buffer.
C16_WaitsLeaveRecordsQueued ==
    /\ []((state.state = "Receiving" /\ pc = "select") => items = <<>>)
    /\ [][(state.state = "Receiving" /\ pc = "entry" /\ pc' # pc) =>
            (items' = <<>> /\ pc' = "select" /\ event_receiver' = event_receiver)]_vars
    /\ [][(state.state \in {"Receiving", "Waiting"}) =>
            event_receiver' \in {event_receiver, Append(event_receiver, nextId)}]_vars
    /\ [][TakesRecord =>
            /\ state.state = "Sending" /\ pc = "drain"
            /\ event_receiver' = Tail(event_receiver)
            /\ items' = Append(items, Head(event_receiver))]_vars

\* A Flush was read in the backoff while envelope 2 was queued behind the
\* retained envelope 1: it is still on the channel
C16_Witness ==
    /\ state.state = "Waiting"
    /\ pc = "select"
    /\ lastRecv = Recv("Waiting", "Flush")
    /\ items = <<1>>
    /\ event_receiver = <<2>>


\* --------------------------------------------------------------------- C17
\* The Transmitter is invoked in the re-attempt that follows a backoff
ReattemptInFlight == state.state = "Sending" /\ from = "Waiting" /\ pc = "await"

\* C17 as stated: the batch of the re-attempt after a backoff equals the
\* buffer retained when the backoff was entered, whatever was enqueued on
\* the records channel meanwhile.
C17_ReattemptSendsRetainedBuffer == ReattemptInFlight => inflight = retained

\* C17 amended: the backoff leaves the buffer untouched, and the re-attempt
\* drains the records channel like every Sending phase: its batch is the
\* retained buffer followed, in channel order, by the envelopes enqueued since.
C17_ReattemptSendsRetainedThenQueued ==
    /\ [][(state.state = "Waiting" /\ state'.state \in {"Waiting", "Sending"}) =>
            items' = items]_vars
    /\ [][(state.state = "Sending" /\ from = "Waiting" /\ pc = "entry" /\ pc' # pc) =>
            (retained' = items /\ items' = items)]_vars
    /\ []((state.state = "Sending" /\ from = "Waiting" /\ pc \in {"drain", "await"}) =>
            /\ Len(retained) <= Len(items)
            /\ SubSeq(items, 1, Len(retained)) = retained
            /\ \A i, j \in 1..Len(items) : i < j => items[i] < items[j])
    /\ [](ReattemptInFlight => inflight = items)

\* Envelope 2 was enqueued while envelope 1 waited in the backoff: the
\* re-attempt sends both
C17_Witness ==
    /\ ReattemptInFlight
    /\ retained = <<1>>
    /\ inflight = <<1, 2>>


\* --------------------------------------------------------------------- C18
\* The policy the Sending handler of Variant m stores in retry
SendingPolicy(m) ==
    IF Handler(m) = "handle_sending_with_retry"
    THEN SendingWithRetryPolicy(retry)
    ELSE SendingOncePolicy(retry)

\* C18: retry is assigned only by the entry of a Sending handler, which
\* stores a fresh exponential policy when Sending was entered by
\* TimeoutExpired or FlushRequested (from Receiving or from Waiting) and the
\* single-shot policy when it was entered by CloseRequested, before any send;
\* it is consumed only by the entry of handle_waiting, which takes its next
\* delay; handle_receiving and the send leave it as it is.
C18_RetryWrittenOnSendingEntryOnly ==
    /\ [][(retry' # retry) =>
            \/ /\ state.state = "Sending" /\ pc = "entry" /\ pc' = "drain"
               /\ retry' = SendingPolicy(state)
            \/ /\ state.state = "Waiting" /\ pc = "entry"
               /\ retry' = Retry_next(retry).rest]_vars
    /\ [][(state.state = "Sending" /\ pc = "entry" /\ pc' # pc) =>
            (retry' = SendingPolicy(state) /\ sends' = 0 /\ inflight' = <<>>)]_vars
    /\ []((state.state = "Sending" /\ pc \in {"drain", "await"}) =>
            retry = IF state.by = "CloseRequested" THEN Retry_once
                                                  ELSE Retry_exponential)
    /\ []((state.state = "Sending") =>
            state.by \in {"TimeoutExpired", "FlushRequested", "CloseRequested"})

\* A Close read in Receiving after an earlier cycle left the exponential
\* policy: the final send is in flight with the single-shot policy
C18_Witness ==
    /\ state = SendingByCloseRequested
    /\ pc = "await"
    /\ retry = Retry_once
    /\ issued = 2
    /\ lastRecv = Recv("Receiving", "Close")


\* --------------------------------------------------------------------- C19
\* C19: whenever handle_waiting is entered, retry is the exponential policy
\* with no delay taken from it, so every backoff waits for the first delay of
\* the policy, however many retries of the batch came before, and no Variant
\* is ever reached by RetryExhausted.
C19_BackoffNeverGrows ==
    /\ ((state.state = "Waiting" /\ pc = "entry") => retry = Retry_exponential)
    /\ ((state.state = "Waiting" /\ pc = "select") =>
            /\ timer = RetryTimer(Head(Retry_exponential))
            /\ retry = Tail(Retry_exponential))
    /\ state.by # "RetryExhausted"
    /\ ~(state.state = "Receiving" /\ from = "Waiting")

\* The third consecutive backoff of one batch waits for the first delay
C19_Witness ==
    /\ state.state = "Waiting"
    /\ pc = "select"
    /\ retryRun = 3
    /\ timer = RetryTimer(Head(Retry_exponential))
    /\ items # <<>>


\* --------------------------------------------------------------------- C20
\* The step takes a command off the command channel
TakesCommand ==
    command_receiver' # command_receiver /\ Len(command_receiver') <= Len(command_receiver)

\* C20: a command leaves the command channel only in the select! of
\* handle_receiving or handle_waiting, as the head of the channel and one per
\* read; in Sending the channel only grows, and a send in flight ends only
\* with the response of the Transmitter, which takes no command: what was
\* enqueued during the send is still queued, in order, when the next handler
\* is entered.
C20_CommandsReadOnlyInWaits ==
    /\ [][TakesCommand =>
            /\ state.state \in {"Receiving", "Waiting"}
            /\ pc = "select"
            /\ command_receiver' = Tail(command_receiver)
            /\ lastRecv' = Recv(state.state, Head(command_receiver))]_vars
    /\ [][(state.state = "Sending") =>
            \/ command_receiver' = command_receiver
            \/ \E c \in Commands : command_receiver' = Append(command_receiver, c)]_vars
    /\ [](pc = "await" => (state.state = "Sending" /\ inflight # <<>>))
    /\ [][(pc = "await" /\ (pc' # pc \/ state' # state \/ inflight' # inflight)) =>
            /\ response' \in Responses(inflight)
            /\ inflight' = <<>>
            /\ pc' = "entry"
            /\ command_receiver' = command_receiver
            /\ lastRecv' = lastRecv]_vars

\* A Terminate and a Close are queued while a batch is in flight
C20_Witness ==
    /\ state.state = "Sending"
    /\ pc = "await"
    /\ inflight = <<1, 2>>
    /\ command_receiver = <<"Terminate", "Close">>

====
